---- MODULE Spec2Model ----
(***************************************************************************)
(* The budget-chat broadcaster of problem3/src/main.rs.                    *)
(*                                                                         *)
(* One task per accepted connection runs process_socket.  The tasks share  *)
(* user_db (a Mutex<BTreeSet<AsciiString>>) and a tokio broadcast channel. *)
(* A step of the model is one access to shared state or one completed      *)
(* await of a task; the tasks run on a multi-threaded runtime, so steps of *)
(* different tasks interleave freely.  The mutex is never poisoned: no     *)
(* code run under it can panic.  A task that returns drops its locals, so  *)
(* they are reset.                                                         *)
(*                                                                         *)
(* Strings are sequences of byte values.  A line written to a client is a  *)
(* record naming the format string used and the values interpolated.       *)
(***************************************************************************)
EXTENDS Integers, Sequences, FiniteSets, TLC

\* ------------------------------------------------------------ bounds
\* Number of connections the listener accepts.
NSess == 2
\* Number of chat lines the clients send in total.
MaxMsgs == 3
\* The same, in the runs checked for liveness.
MaxMsgsFair == 2
\* The same, in the runs with pending input.
MaxMsgsPending == 1
\* Number of events a receiver may leave unread before it lags.  The
\* channel is created with 1000; the model uses a small queue.
Capacity == 2

Sess == 1..NSess

\* ------------------------------------------------------------ strings
\* First lines the clients send: "a", "b", "", "a!", and one with a
\* non-ASCII character (bytes 195 169).
NameLines == { <<97>>, <<98>>, << >>, <<97, 33>>, <<195, 169>> }

\* Later lines the clients send: "hi", and one with a non-ASCII character.
ChatLines == { <<104, 105>>, <<195, 169>> }

\* What the socket's read half delivers next: a complete line, end of
\* stream, or a transport error.
Inputs(lines) ==
  [kind : {"line"}, bytes : lines]
    \cup { [kind |-> "eof", bytes |-> << >>], [kind |-> "ioerr", bytes |-> << >>] }

\* Nothing received that the task has not read.
NoInput == [kind |-> "none", bytes |-> << >>]

is_ascii(b) == b < 128

is_ascii_alphanumeric(c) ==
  \/ c \in 48..57
  \/ c \in 65..90
  \/ c \in 97..122

valid_name_nonempty(name) == Len(name) >= 1

valid_name(name) ==
  /\ Len(name) >= 1
  /\ \A i \in 1..Len(name) : is_ascii_alphanumeric(name[i])

\* AsciiLinesCodec::decode on one complete line: the inner LinesCodec is
\* built without a length limit, so the only failure is a non-ASCII byte.
decode(bytes) ==
  IF \A i \in 1..Len(bytes) : is_ascii(bytes[i])
    THEN [tag |-> "Ok", line |-> bytes]
    ELSE [tag |-> "Err", line |-> << >>]

\* Ord for AsciiString: lexicographic on bytes.
StrLess(a, b) ==
  \E k \in 1..(Len(a) + 1) :
    /\ k <= Len(b) + 1
    /\ \A i \in 1..(k - 1) : a[i] = b[i]
    /\ \/ k = Len(a) + 1 /\ k <= Len(b)
       \/ k <= Len(a) /\ k <= Len(b) /\ a[k] < b[k]

\* BTreeSet::iter: the elements in ascending order.
RECURSIVE iter_descending(_)
iter_descending(S) ==
  IF S = {} THEN << >>
  ELSE LET m == CHOOSE x \in S : \A y \in S \ {x} : StrLess(y, x)
       IN <<m>> \o iter_descending(S \ {m})

RECURSIVE iter(_)
iter(S) ==
  IF S = {} THEN << >>
  ELSE LET m == CHOOSE x \in S : \A y \in S \ {x} : StrLess(x, y)
       IN <<m>> \o iter(S \ {m})

\* Iterator::reduce with |a, b| a + ", " + b, and unwrap_or("").
RECURSIVE reduce(_)
reduce(q) ==
  IF q = << >> THEN << >>
  ELSE IF Len(q) = 1 THEN q[1]
  ELSE reduce(<<q[1] \o <<44, 32>> \o q[2]>> \o SubSeq(q, 3, Len(q)))

\* The roster string built under the lock.
UserListOf(db, name) ==
  reduce(SelectSeq(iter(db), LAMBDA x : x # name))

\* ------------------------------------------------------------ events
\* `from` is the publishing task; it is not part of the Rust value and no
\* receiver reads it.
Msg(s, u, m) == [kind |-> "Msg", user |-> u, msg |-> m, from |-> s]
NewUser(s, u) == [kind |-> "NewUser", user |-> u, msg |-> << >>, from |-> s]
UserLeftAsNewUser(s, u) == [kind |-> "NewUser", user |-> u, msg |-> << >>, from |-> s]

UserLeft(s, u) == [kind |-> "UserLeft", user |-> u, msg |-> << >>, from |-> s]

\* Lines written to a client.  idx is the position on the channel of the
\* event a line renders (0 for the handshake lines).
PromptLine == [fmt |-> "Welcome to budgetchat! What shall I call you?", user |-> << >>, text |-> << >>, idx |-> 0]
RosterLine(l) == [fmt |-> "* The room contains: {}", user |-> << >>, text |-> l, idx |-> 0]
IllegalLine == [fmt |-> "Illegal username", user |-> << >>, text |-> << >>, idx |-> 0]
Render(e, i) ==
  CASE e.kind = "Msg" -> [fmt |-> "[{u}] {m}", user |-> e.user, text |-> e.msg, idx |-> i]
    [] e.kind = "NewUser" -> [fmt |-> "* {u} has entered the room", user |-> e.user, text |-> << >>, idx |-> i]
    [] e.kind = "UserLeft" -> [fmt |-> "* {u} has left the room", user |-> e.user, text |-> << >>, idx |-> i]

VARIABLES
  pc,            \* where each task is in process_socket
  name,          \* the first line a task read, "" before that
  name_exists,   \* local of the admission block, between its test and its use
  name_inserted, \* "None", "Some(true)" or "Some(false)"
  user_list,     \* the roster string computed under the lock
  user_db,       \* the shared BTreeSet
  lock,          \* the task holding user_db's mutex, 0 when free
  bus,           \* every event sent on the channel, in send order
  rx,            \* per task: position of the next event to receive, 0 without a receiver
  ev,            \* per task: position of the event being rendered
  has_errored,   \* per task: FramedRead returned an error on its last poll
  wr,            \* per task: the lines passed to wr.write_all so far, in order
  wres,          \* per task: what the write_all just completed in the event loop returned
  why,           \* per task: why line_delimited ended ("eof", "read_error", or "no_name" before a name was read)
  sub,           \* per task: how many events had been sent when it subscribed (history)
  inbox          \* per task: what its socket has received and the task has not read yet

vars == <<pc, name, name_exists, name_inserted, user_list, user_db, lock,
          bus, rx, ev, has_errored, wr, wres, why, sub, inbox>>

shared == <<user_db, lock, bus>>
locals == <<name, name_exists, name_inserted, user_list>>

Init ==
  /\ pc = [s \in Sess |-> "idle"]
  /\ name = [s \in Sess |-> << >>]
  /\ name_exists = [s \in Sess |-> FALSE]
  /\ name_inserted = [s \in Sess |-> "None"]
  /\ user_list = [s \in Sess |-> << >>]
  /\ user_db = {}
  /\ lock = 0
  /\ bus = << >>
  /\ rx = [s \in Sess |-> 0]
  /\ ev = [s \in Sess |-> 0]
  /\ has_errored = [s \in Sess |-> FALSE]
  /\ wr = [s \in Sess |-> << >>]
  /\ wres = [s \in Sess |-> "Ok"]
  /\ why = [s \in Sess |-> "running"]
  /\ sub = [s \in Sess |-> 0]
  /\ inbox = [s \in Sess |-> NoInput]

\* ------------------------------------------------------------ helpers
\* wr.write_all(line).await: the line is handed to the socket and the call
\* returns Ok or Err.  No caller looks at the result.
write_all(s, line) ==
  wr' = [wr EXCEPT ![s] = Append(@, line)]

\* tx.send(e): the result is discarded; the channel never blocks a sender.
send(e) == bus' = Append(bus, e)

\* The task returns from process_socket: its locals, its receiver and the
\* two halves of its socket are dropped.
return(s) ==
  /\ pc' = [pc EXCEPT ![s] = "done"]
  /\ name' = [name EXCEPT ![s] = << >>]
  /\ name_exists' = [name_exists EXCEPT ![s] = FALSE]
  /\ name_inserted' = [name_inserted EXCEPT ![s] = "None"]
  /\ user_list' = [user_list EXCEPT ![s] = << >>]
  /\ rx' = [rx EXCEPT ![s] = 0]
  /\ ev' = [ev EXCEPT ![s] = 0]
  /\ has_errored' = [has_errored EXCEPT ![s] = FALSE]
  /\ wr' = [wr EXCEPT ![s] = << >>]
  /\ wres' = [wres EXCEPT ![s] = "Ok"]
  /\ why' = [why EXCEPT ![s] = "running"]
  /\ sub' = [sub EXCEPT ![s] = 0]
  /\ inbox' = [inbox EXCEPT ![s] = NoInput]

\* The two returns taken when no name was read: nothing but the task's own
\* locals is touched.
return_announced(s) ==
  /\ pc' = [pc EXCEPT ![s] = "done"]
  /\ name' = [name EXCEPT ![s] = << >>]
  /\ name_exists' = [name_exists EXCEPT ![s] = FALSE]
  /\ name_inserted' = [name_inserted EXCEPT ![s] = "None"]
  /\ user_list' = [user_list EXCEPT ![s] = << >>]
  /\ rx' = [rx EXCEPT ![s] = 0]
  /\ ev' = [ev EXCEPT ![s] = 0]
  /\ has_errored' = [has_errored EXCEPT ![s] = FALSE]
  /\ wr' = [wr EXCEPT ![s] = << >>]
  /\ wres' = [wres EXCEPT ![s] = "Ok"]
  /\ why' = [why EXCEPT ![s] = "no_name"]
  /\ sub' = [sub EXCEPT ![s] = 0]
  /\ inbox' = [inbox EXCEPT ![s] = NoInput]
  /\ send(UserLeft(s, name[s]))
  /\ UNCHANGED <<user_db, lock>>

return_unnamed(s) ==
  /\ pc' = [pc EXCEPT ![s] = "done"]
  /\ name' = [name EXCEPT ![s] = << >>]
  /\ name_exists' = [name_exists EXCEPT ![s] = FALSE]
  /\ name_inserted' = [name_inserted EXCEPT ![s] = "None"]
  /\ user_list' = [user_list EXCEPT ![s] = << >>]
  /\ rx' = [rx EXCEPT ![s] = 0]
  /\ ev' = [ev EXCEPT ![s] = 0]
  /\ has_errored' = [has_errored EXCEPT ![s] = FALSE]
  /\ wr' = [wr EXCEPT ![s] = << >>]
  /\ wres' = [wres EXCEPT ![s] = "Ok"]
  /\ why' = [why EXCEPT ![s] = "no_name"]
  /\ sub' = [sub EXCEPT ![s] = 0]
  /\ inbox' = [inbox EXCEPT ![s] = NoInput]
  /\ UNCHANGED shared

\* The task is in the event loop.
Active(s) == pc[s] \in {"select", "write"}

NumMsgs == Cardinality({i \in 1..Len(bus) : bus[i].kind = "Msg"})

\* line_delimited.next(): what FramedRead yields for the next input.  The
\* poll that follows one that returned an error yields None, whatever the
\* socket holds (tokio-util ends a framed stream after a decoder or read
\* error).
next(s, in) ==
  IF has_errored[s] THEN [tag |-> "None", line |-> << >>]
  ELSE CASE in.kind = "eof" -> [tag |-> "None", line |-> << >>]
         [] in.kind = "ioerr" -> [tag |-> "Err", line |-> << >>]
         [] in.kind = "line" -> decode(in.bytes)

\* ------------------------------------------------------------ actions
\* main: listener.accept() and tokio::spawn, one connection after another.
\* The new task starts by writing the prompt.
Accept(s) ==
  /\ pc[s] = "idle"
  /\ \A t \in Sess : t < s => pc[t] # "idle"
  /\ write_all(s, PromptLine)
  /\ pc' = [pc EXCEPT ![s] = "readname"]
  /\ UNCHANGED <<locals, shared, rx, ev, has_errored, wres, why, sub, inbox>>

ReadName(s) ==
  /\ pc[s] = "readname"
  /\ \E in \in Inputs(NameLines) :
       LET r == next(s, in) IN
       IF r.tag = "Ok"
         THEN /\ name' = [name EXCEPT ![s] = r.line]
              /\ pc' = [pc EXCEPT ![s] = "lock"]
              /\ UNCHANGED <<name_exists, name_inserted, user_list, rx, ev, has_errored, wr, wres, why, sub, inbox>>
              /\ UNCHANGED shared
         ELSE return_unnamed(s)

\* Mutex::lock and MutexGuard::drop.
acquire_unguarded(s) == lock' = s

acquire(s) == lock = 0 /\ lock' = s

release_late(s) == lock' = lock

release(s) == lock' = 0

\* user_db.lock() and s.contains(&name).
Contains(s) ==
  /\ pc[s] = "lock"
  /\ acquire(s)
  /\ name_exists' = [name_exists EXCEPT ![s] = (name[s] \in user_db)]
  /\ pc' = [pc EXCEPT ![s] = "insert"]
  /\ UNCHANGED <<name, name_inserted, user_list, user_db, bus, rx, ev, has_errored, wr, wres, why, sub, inbox>>

\* The rest of the block: the insert, the roster, and the guard dropped at
\* the end of the block.
InsertForgets(s) ==
  /\ pc[s] = "insert"
  /\ LET ins == valid_name(name[s]) /\ ~name_exists[s]
     IN /\ user_db' = user_db
        /\ name_inserted' = [name_inserted EXCEPT ![s] = IF ins THEN "Some(true)" ELSE "Some(false)"]
        /\ user_list' = [user_list EXCEPT ![s] = UserListOf(user_db, name[s])]
        /\ pc' = [pc EXCEPT ![s] = IF ins THEN "sendnew" ELSE "reject"]
  /\ name_exists' = [name_exists EXCEPT ![s] = FALSE]
  /\ release(s)
  /\ UNCHANGED <<name, bus, rx, ev, has_errored, wr, wres, why, sub, inbox>>

Insert(s) ==
  /\ pc[s] = "insert"
  /\ LET ins == valid_name(name[s]) /\ ~name_exists[s]
         db == IF ins THEN user_db \cup {name[s]} ELSE user_db
     IN /\ user_db' = db
        /\ name_inserted' = [name_inserted EXCEPT ![s] = IF ins THEN "Some(true)" ELSE "Some(false)"]
        /\ user_list' = [user_list EXCEPT ![s] = UserListOf(db, name[s])]
        /\ pc' = [pc EXCEPT ![s] = IF ins THEN "sendnew" ELSE "reject"]
  /\ name_exists' = [name_exists EXCEPT ![s] = FALSE]
  /\ release(s)
  /\ UNCHANGED <<name, bus, rx, ev, has_errored, wr, wres, why, sub, inbox>>

SendNewUserSkipped(s) ==
  /\ pc[s] = "sendnew"
  /\ pc' = [pc EXCEPT ![s] = "subscribe"]
  /\ UNCHANGED <<locals, shared, rx, ev, has_errored, wr, wres, why, sub, inbox>>

SendNewUser(s) ==
  /\ pc[s] = "sendnew"
  /\ send(NewUser(s, name[s]))
  /\ pc' = [pc EXCEPT ![s] = "subscribe"]
  /\ UNCHANGED <<locals, user_db, lock, rx, ev, has_errored, wr, wres, why, sub, inbox>>

\* tx.subscribe(): the new receiver starts behind the events sent so far.
SubscribeReplaysLast(s) ==
  /\ pc[s] = "subscribe"
  /\ rx' = [rx EXCEPT ![s] = Len(bus)]
  /\ sub' = [sub EXCEPT ![s] = Len(bus)]
  /\ pc' = [pc EXCEPT ![s] = "roster"]
  /\ UNCHANGED <<locals, shared, ev, has_errored, wr, wres, why, inbox>>

Subscribe(s) ==
  /\ pc[s] = "subscribe"
  /\ rx' = [rx EXCEPT ![s] = Len(bus) + 1]
  /\ sub' = [sub EXCEPT ![s] = Len(bus)]
  /\ pc' = [pc EXCEPT ![s] = "roster"]
  /\ UNCHANGED <<locals, shared, ev, has_errored, wr, wres, why, inbox>>

WriteRoster(s) ==
  /\ pc[s] = "roster"
  /\ write_all(s, RosterLine(user_list[s]))
  /\ user_list' = [user_list EXCEPT ![s] = << >>]
  /\ pc' = [pc EXCEPT ![s] = "select"]
  /\ UNCHANGED <<name, name_exists, name_inserted, shared, rx, ev, has_errored, wres, why, sub, inbox>>

Reject(s) ==
  /\ pc[s] = "reject"
  /\ write_all(s, IllegalLine)
  /\ user_list' = [user_list EXCEPT ![s] = << >>]
  /\ pc' = [pc EXCEPT ![s] = "rejected"]
  /\ UNCHANGED <<name, name_exists, name_inserted, shared, rx, ev, has_errored, wres, why, sub, inbox>>

\* The return that follows the rejection line.
ReturnRejected(s) ==
  /\ pc[s] = "rejected"
  /\ return(s)
  /\ UNCHANGED shared

\* Receiver::recv when an event is unread: Lagged when more than Capacity
\* events are unread, the oldest unread event otherwise.  i is the position
\* of the event returned (0 for Lagged), nxt the receiver's new position.
Lagged(s) == Len(bus) - rx[s] + 1 > Capacity
recv_newest(s) ==
  IF Lagged(s)
    THEN [i |-> 0, nxt |-> Len(bus) - Capacity + 1]
    ELSE [i |-> Len(bus), nxt |-> rx[s] + 1]

recv(s) ==
  IF Lagged(s)
    THEN [i |-> 0, nxt |-> Len(bus) - Capacity + 1]
    ELSE [i |-> rx[s], nxt |-> rx[s] + 1]

\* The test of the three match arms: an event of the task's own user is
\* not rendered.
renders_all(e, nm) == TRUE

renders_inverted(e, nm) == e.user = nm

renders(e, nm) == e.user # nm

\* `else { return; }` on an Err from recv.
RecvErrContinue(s, r) ==
  /\ rx' = [rx EXCEPT ![s] = r.nxt]
  /\ UNCHANGED <<pc, locals, ev, has_errored, wr, wres, why, sub, inbox>>

RecvErr(s, r) == return(s)

\* select!, branch rx.recv().
Recv(s) ==
  /\ pc[s] = "select"
  /\ rx[s] <= Len(bus)
  /\ LET r == recv(s) IN
     IF r.i = 0
       THEN RecvErr(s, r)
       ELSE /\ rx' = [rx EXCEPT ![s] = r.nxt]
            /\ IF renders(bus[r.i], name[s])
                 THEN /\ ev' = [ev EXCEPT ![s] = r.i]
                      /\ pc' = [pc EXCEPT ![s] = "write"]
                 ELSE UNCHANGED <<ev, pc>>
            /\ wres' = [wres EXCEPT ![s] = "Ok"]
            /\ UNCHANGED <<locals, has_errored, wr, why, sub, inbox>>
  /\ UNCHANGED shared

\* The write_all of the three match arms; the loop goes on whatever it
\* returns.
WriteEvent(s) ==
  /\ pc[s] = "write"
  /\ write_all(s, Render(bus[ev[s]], ev[s]))
  /\ \E res \in {"Ok", "Err"} : wres' = [wres EXCEPT ![s] = res]
  /\ ev' = [ev EXCEPT ![s] = 0]
  /\ pc' = [pc EXCEPT ![s] = "select"]
  /\ UNCHANGED <<locals, shared, rx, has_errored, why, sub, inbox>>

\* The number of chat lines received and not yet read.
PendingMsgs ==
  Cardinality({t \in Sess : inbox[t].kind = "line" /\ decode(inbox[t].bytes).tag = "Ok"})

\* What the next poll of line_delimited finds: the input that is waiting,
\* or else whatever arrives at that moment.
Pending(s) ==
  IF inbox[s] = NoInput THEN Inputs(ChatLines) ELSE {inbox[s]}

\* The client of a task in the event loop sends a line, closes, or its
\* connection breaks, and the task has yet to read that.  The clients send
\* at most `limit` chat lines in total.
Arrive(s, limit) ==
  /\ Active(s)
  /\ inbox[s] = NoInput
  /\ \E in \in Inputs(ChatLines) :
       /\ (in.kind = "line" /\ decode(in.bytes).tag = "Ok")
            => NumMsgs + PendingMsgs < limit
       /\ inbox' = [inbox EXCEPT ![s] = in]
  /\ UNCHANGED <<pc, locals, shared, rx, ev, has_errored, wr, wres, why, sub>>

\* select!, branch line_delimited.next().  The clients send at most
\* `limit` chat lines in total.
ReadLineRetriesErr(s, limit) ==
  /\ pc[s] = "select"
  /\ \E in \in Pending(s) :
       LET r == next(s, in) IN
       CASE r.tag = "Ok" ->
              /\ NumMsgs + (IF inbox[s] = NoInput THEN PendingMsgs ELSE 0) < limit
              /\ send(Msg(s, name[s], r.line))
              /\ inbox' = [inbox EXCEPT ![s] = NoInput]
              /\ UNCHANGED <<pc, has_errored, why>>
         [] r.tag = "Err" ->
              /\ inbox' = inbox
              /\ UNCHANGED <<pc, bus, why, has_errored>>
         [] r.tag = "None" ->
              /\ pc' = [pc EXCEPT ![s] = "take"]
              /\ why' = [why EXCEPT ![s] = IF has_errored[s] THEN "read_error" ELSE "eof"]
              /\ has_errored' = [has_errored EXCEPT ![s] = FALSE]
              /\ inbox' = [inbox EXCEPT ![s] = NoInput]
              /\ UNCHANGED bus
  /\ wres' = [wres EXCEPT ![s] = "Ok"]
  /\ UNCHANGED <<locals, user_db, lock, rx, ev, wr, sub>>

ReadLine(s, limit) ==
  /\ pc[s] = "select"
  /\ \E in \in Pending(s) :
       LET r == next(s, in) IN
       CASE r.tag = "Ok" ->
              /\ NumMsgs + (IF inbox[s] = NoInput THEN PendingMsgs ELSE 0) < limit
              /\ send(Msg(s, name[s], r.line))
              /\ UNCHANGED <<pc, has_errored, why>>
         [] r.tag = "Err" ->
              /\ has_errored' = [has_errored EXCEPT ![s] = TRUE]
              /\ UNCHANGED <<pc, bus, why>>
         [] r.tag = "None" ->
              /\ pc' = [pc EXCEPT ![s] = "take"]
              /\ why' = [why EXCEPT ![s] = IF has_errored[s] THEN "read_error" ELSE "eof"]
              /\ has_errored' = [has_errored EXCEPT ![s] = FALSE]
              /\ UNCHANGED bus
  /\ wres' = [wres EXCEPT ![s] = "Ok"]
  /\ inbox' = [inbox EXCEPT ![s] = NoInput]
  /\ UNCHANGED <<locals, user_db, lock, rx, ev, wr, sub>>

\* user_db.lock().take(&name): the guard is a temporary of the statement.
Take(s) ==
  /\ pc[s] = "take"
  /\ lock = 0
  /\ user_db' = user_db \ {name[s]}
  /\ pc' = [pc EXCEPT ![s] = "sendleft"]
  /\ UNCHANGED <<locals, lock, bus, rx, ev, has_errored, wr, wres, why, sub, inbox>>

SendUserLeft(s) ==
  /\ pc[s] = "sendleft"
  /\ send(UserLeft(s, name[s]))
  /\ return(s)
  /\ UNCHANGED <<user_db, lock>>

Step(s, limit) ==
    \/ Accept(s)
    \/ ReadName(s)
    \/ Contains(s)
    \/ Insert(s)
    \/ SendNewUser(s)
    \/ Subscribe(s)
    \/ WriteRoster(s)
    \/ Reject(s)
    \/ ReturnRejected(s)
    \/ Recv(s)
    \/ WriteEvent(s)
    \/ ReadLine(s, limit)
    \/ Take(s)
    \/ SendUserLeft(s)

Next == \E s \in Sess : Step(s, MaxMsgs)

Spec == Init /\ [][Next]_vars

NextFair == \E s \in Sess : Step(s, MaxMsgsFair)

\* The runtime runs every task that can make progress, select! takes a
\* branch that stays ready, and the clients read what they are sent.  What
\* the clients send, and when, is left open.
Fairness ==
  \A s \in Sess :
    /\ WF_vars(Insert(s))
    /\ WF_vars(SendNewUser(s))
    /\ WF_vars(Subscribe(s))
    /\ WF_vars(WriteRoster(s))
    /\ WF_vars(Recv(s))
    /\ WF_vars(WriteEvent(s))
    /\ WF_vars(Take(s))
    /\ WF_vars(SendUserLeft(s))

FairSpec == Init /\ [][NextFair]_vars /\ Fairness

\* The same tasks, with what a client has sent and its task has not yet
\* read made explicit.  select! polls its branches in random order, so a
\* branch that is ready again and again is taken.
ReadPending(s) == inbox[s] # NoInput /\ ReadLine(s, MaxMsgsPending)

PendingNext == \E s \in Sess : Step(s, MaxMsgsPending) \/ Arrive(s, MaxMsgsPending)

PendingSpec ==
  /\ Init /\ [][PendingNext]_vars
  /\ Fairness
  /\ \A s \in Sess : SF_vars(ReadPending(s))

\* The server some time after start: users "B", "ab" and "b" may already be
\* in the room, on connections that stay silent from here on.  The
\* connections accepted from now on send no chat lines.
PriorNames == { <<66>>, <<97, 98>>, <<98>> }

RoomInit ==
  /\ pc = [s \in Sess |-> "idle"]
  /\ name = [s \in Sess |-> << >>]
  /\ name_exists = [s \in Sess |-> FALSE]
  /\ name_inserted = [s \in Sess |-> "None"]
  /\ user_list = [s \in Sess |-> << >>]
  /\ user_db \in SUBSET PriorNames
  /\ lock = 0
  /\ bus = << >>
  /\ rx = [s \in Sess |-> 0]
  /\ ev = [s \in Sess |-> 0]
  /\ has_errored = [s \in Sess |-> FALSE]
  /\ wr = [s \in Sess |-> << >>]
  /\ wres = [s \in Sess |-> "Ok"]
  /\ why = [s \in Sess |-> "running"]
  /\ sub = [s \in Sess |-> 0]
  /\ inbox = [s \in Sess |-> NoInput]

RoomNext == \E s \in Sess : Step(s, 0)

RoomSpec == RoomInit /\ [][RoomNext]_vars

\* ------------------------------------------------------------ properties
\* The task has had its name inserted and has not yet taken it out.
Holds(s) ==
  /\ name_inserted[s] = "Some(true)"
  /\ pc[s] \in {"sendnew", "subscribe", "roster", "select", "write", "take"}

\* Every registered name is the name of a task that holds it.
RegistryBacked == \A n \in user_db : \E s \in Sess : Holds(s) /\ name[s] = n

\* The task has published its UserLeft event.
LeftPublished(s) ==
  \E i \in 1..Len(bus) : bus[i].kind = "UserLeft" /\ bus[i].from = s

\* The task makes a step that ends process_socket.
Returns(s) == pc[s] # "done" /\ pc'[s] = "done"

\* The positions of the events the task has rendered or is rendering.
Rendered(s) ==
  ({wr[s][k].idx : k \in 1..Len(wr[s])} \cup {ev[s]}) \ {0}

\* C1: no two tasks hold the same name at the same time, and a task that
\* runs the admission block for a valid name is admitted exactly when the
\* name is not registered at that moment: of two tasks racing for one
\* unregistered name, the first to insert is admitted and the other rejected.
C1_UniqueNames ==
  /\ [](\A s, t \in Sess : (s # t /\ Holds(s) /\ Holds(t)) => name[s] # name[t])
  /\ [][\A s \in Sess :
          (pc[s] = "insert" /\ pc'[s] # "insert" /\ valid_name(name[s]))
            => (name_inserted'[s] = "Some(true)" <=> name[s] \notin user_db)]_vars

\* Two tasks asked for the same valid name; one was admitted, the other
\* rejected.
C1_Witness ==
  \E s, t \in Sess :
    /\ s # t /\ name[s] = name[t] /\ valid_name(name[s])
    /\ Holds(s) /\ pc[s] = "sendnew"
    /\ pc[t] = "reject" /\ name_inserted[t] = "Some(false)"

\* C2: whenever an admitted task returns, for whatever reason, its name is
\* no longer registered for it and its UserLeft event has been published.
C2_CleanupOnEveryExit ==
  [][\A s \in Sess :
       (name_inserted[s] = "Some(true)" /\ Returns(s))
         => (RegistryBacked' /\ LeftPublished(s)')]_vars

\* C3: an admitted task whose reader failed with an error while it was in
\* the event loop returns only with its name taken out of the registry and
\* its UserLeft event published.
C3_CleanupAfterReadError ==
  [][\A s \in Sess :
       (name_inserted[s] = "Some(true)" /\ Returns(s)
          /\ (has_errored[s] \/ why[s] = "read_error"))
         => (RegistryBacked' /\ LeftPublished(s)')]_vars

\* The task has written the line that renders the UserLeft event of s.
WroteLeft(t, s) ==
  \E k \in 1..Len(wr[t]) :
    /\ wr[t][k].fmt = "* {u} has left the room"
    /\ wr[t][k].idx \in 1..Len(bus)
    /\ bus[wr[t][k].idx].kind = "UserLeft"
    /\ bus[wr[t][k].idx].from = s
    /\ wr[t][k].user = bus[wr[t][k].idx].user

C5_NoEcho ==
  \A s \in Sess : \A i \in Rendered(s) :
    bus[i].from # s /\ bus[i].user # name[s]

\* A task has received its own Msg event and wrote nothing for it.
C5_Witness ==
  \E s \in Sess : \E i \in 1..Len(bus) :
    /\ bus[i].kind = "Msg" /\ bus[i].from = s
    /\ Active(s) /\ rx[s] > i /\ ev[s] = 0

\* The longest the channel's history gets.
MaxBus == 2 * NSess + MaxMsgsFair

\* Event i is a Msg of another task that task t, holding a receiver, has
\* yet to write.
Unwritten(t, i) ==
  /\ i \in 1..Len(bus) /\ bus[i].kind = "Msg" /\ bus[i].from # t
  /\ rx[t] # 0 /\ (rx[t] <= i \/ ev[t] = i)

InLoop(t) == pc[t] \in {"roster", "select", "write"}

WroteMsg(t, i) ==
  \E k \in 1..Len(wr[t]) :
    /\ wr[t][k].idx = i /\ wr[t][k].fmt = "[{u}] {m}"
    /\ wr[t][k].user = bus[i].user /\ wr[t][k].text = bus[i].msg

\* C6, as claimed: every task subscribed when a Msg is published writes it;
\* so no task drops its receiver with such a Msg unwritten.
C6_AllSubscribersWrite ==
  [][\A t \in Sess : \A i \in 1..MaxBus : Unwritten(t, i) => rx'[t] # 0]_vars

\* C6, amended: every task subscribed when a Msg of another task is
\* published writes "[user] text" for it unless it first leaves its event
\* loop; and no task writes a line for an event it published.
C6_SubscribersInLoopWrite ==
  /\ \A t \in Sess : \A i \in 1..MaxBus :
       (Unwritten(t, i) /\ InLoop(t)) ~> (WroteMsg(t, i) \/ ~InLoop(t))
  /\ [](\A s \in Sess : \A i \in Rendered(s) : bus[i].from # s)

\* A task has written the line for a Msg of another task.
C6_Witness ==
  \E t \in Sess : \E i \in 1..Len(bus) :
    bus[i].kind = "Msg" /\ bus[i].from # t /\ WroteMsg(t, i)

\* C7: the events a task renders come in the order of their publication.
C7_PublicationOrder ==
  \A s \in Sess : \A k, l \in 1..Len(wr[s]) :
    (k < l /\ wr[s][k].idx # 0 /\ wr[s][l].idx # 0) => wr[s][k].idx < wr[s][l].idx

\* A task has rendered two events.
C7_Witness ==
  \E s \in Sess : \E k, l \in 1..Len(wr[s]) :
    k < l /\ wr[s][k].idx # 0 /\ wr[s][l].idx # 0

\* The name validator as the specification words it: non-empty, every
\* character an ASCII letter or digit.
Digits == 48..57
Letters == (65..90) \cup (97..122)
isValidName(n) == n # << >> /\ \A i \in 1..Len(n) : n[i] \in Letters \cup Digits

\* C8: a task whose first line is not a valid name, or is a registered
\* name, is rejected.  From the end of its admission block to its return it
\* changes neither the registry nor the channel and has no receiver; it is
\* sent the prompt and the one line "Illegal username".
C8_Rejection ==
  /\ [](\A s \in Sess :
          /\ pc[s] \in {"reject", "rejected"}
               => /\ name_inserted[s] = "Some(false)"
                  /\ rx[s] = 0
                  /\ \A i \in 1..Len(bus) : bus[i].from # s
          /\ pc[s] = "reject" => wr[s] = <<PromptLine>>
          /\ pc[s] = "rejected" => wr[s] = <<PromptLine, IllegalLine>>)
  /\ [][\A s \in Sess :
          /\ (pc[s] = "insert" /\ pc'[s] # "insert"
                /\ (~isValidName(name[s]) \/ name[s] \in user_db))
               => (pc'[s] = "reject" /\ user_db' = user_db /\ bus' = bus)
          /\ (pc[s] \in {"reject", "rejected"} /\ pc'[s] # pc[s])
               => (user_db' = user_db /\ bus' = bus /\ rx'[s] = 0
                     /\ pc'[s] \in {"rejected", "done"})]_vars

\* A task was rejected for a name that another task holds in the event loop.
C8_Witness ==
  \E s, t \in Sess :
    /\ pc[s] = "rejected"
    /\ s # t /\ Active(t) /\ name[t] = name[s] /\ name[t] \in user_db

\* C9: a task does not go on in the event loop after a write_all of an
\* event line returned an error.
C9_WriteFailureFatal ==
  \A s \in Sess : wres[s] = "Err" => ~Active(s)

\* C10: a task whose receiver finds the queue overflown returns; no task
\* goes on with a gap in the events it has rendered, the events of its own
\* user apart; and the step that ends the lagging task changes nothing of
\* the channel or of another task.
C10_LaggedIsFatal ==
  /\ [](\A s \in Sess : \A i \in Rendered(s) : \A j \in (i + 1)..(rx[s] - 1) :
          j \in Rendered(s) \/ bus[j].user = name[s])
  /\ [][\A s \in Sess :
          (pc[s] = "select" /\ Lagged(s) /\ rx'[s] # rx[s])
            => /\ pc'[s] = "done"
               /\ bus' = bus
               /\ \A t \in Sess \ {s} :
                    pc'[t] = pc[t] /\ rx'[t] = rx[t] /\ wr'[t] = wr[t]]_vars

\* A task that had rendered an event is in the event loop with more than
\* Capacity events unread, while another task is in the event loop too.
C10_Witness ==
  \E s, t \in Sess :
    /\ s # t /\ pc[s] = "select" /\ Lagged(s) /\ Rendered(s) # {}
    /\ Active(t)

\* The positions on the channel of the NewUser event the task published.
JoinedAt(s) ==
  {i \in 1..Len(bus) : bus[i].kind = "NewUser" /\ bus[i].from = s}

\* The task has written its roster line.
HasRoster(s) ==
  \E k \in 1..Len(wr[s]) : wr[s][k].fmt = "* The room contains: {}"

\* C11, as claimed: an admitted task writes its roster line before it
\* publishes NewUser, and subscribes after the publication.
C11_RosterBeforePublish ==
  \A s \in Sess :
    /\ (pc[s] # "done" /\ JoinedAt(s) # {}) => HasRoster(s)
    /\ rx[s] # 0 => \A i \in JoinedAt(s) : i < rx[s]

\* C11, amended: an admitted task takes its roster under the lock, publishes
\* NewUser, subscribes, writes the roster line and then enters the event
\* loop: the subscription is created after the publication, and the roster
\* line is written after both.
C11_AdmissionOrder ==
  \A s \in Sess :
    /\ pc[s] = "sendnew"
         => JoinedAt(s) = {} /\ rx[s] = 0 /\ ~HasRoster(s)
    /\ pc[s] = "subscribe"
         => JoinedAt(s) # {} /\ rx[s] = 0 /\ ~HasRoster(s)
    /\ pc[s] = "roster"
         => /\ JoinedAt(s) # {} /\ rx[s] # 0 /\ ~HasRoster(s)
            /\ \A i \in JoinedAt(s) : i < rx[s]
    /\ Active(s)
         => /\ JoinedAt(s) # {} /\ rx[s] # 0
            /\ \A i \in JoinedAt(s) : i < rx[s]
            /\ Len(wr[s]) >= 2 /\ wr[s][1] = PromptLine
            /\ wr[s][2].fmt = "* The room contains: {}"
            /\ \A k \in 3..Len(wr[s]) : wr[s][k].idx # 0

\* A task is about to write its roster line, with its NewUser published and
\* its receiver created, after another task was told of its arrival.
C11_Witness ==
  \E s, t \in Sess :
    /\ s # t /\ pc[s] = "roster" /\ rx[s] # 0
    /\ \E i \in JoinedAt(s) : i \in Rendered(t)

\* The order of names as the specification words it: bytewise, a proper
\* prefix first.
Before(a, b) ==
  \/ Len(a) < Len(b) /\ a = SubSeq(b, 1, Len(a))
  \/ \E k \in 1..Len(a) :
       /\ k <= Len(b) /\ a[k] < b[k]
       /\ SubSeq(a, 1, k - 1) = SubSeq(b, 1, k - 1)

\* The listings of a set of names: each name once, in ascending order.
Listings(S) ==
  {q \in [1..Cardinality(S) -> S] :
     /\ \A n \in S : \E i \in 1..Cardinality(S) : q[i] = n
     /\ \A i, j \in 1..Cardinality(S) : i < j => Before(q[i], q[j])}

\* The names of a listing joined by ", ".
RECURSIVE CommaJoined(_)
CommaJoined(q) ==
  IF Len(q) = 0 THEN << >>
  ELSE IF Len(q) = 1 THEN q[1]
  ELSE q[1] \o <<44, 32>> \o CommaJoined(Tail(q))

\* C12: while a task is between its membership test and its roster, it holds
\* the lock, the registry does not change and the test's result stays true
\* of it; the roster it computes is the registry of that moment, its own
\* name left out, in ascending order and joined by ", "; and that roster,
\* unchanged, is what the roster line carries.
C12_RosterIsSnapshot ==
  /\ [](\A s \in Sess :
          pc[s] = "insert" => lock = s /\ name_exists[s] = (name[s] \in user_db))
  /\ [][\A s \in Sess :
          /\ (pc[s] = "insert" /\ pc'[s] = "insert") => user_db' = user_db
          /\ (pc[s] = "insert" /\ pc'[s] = "sendnew")
               => /\ user_db' = user_db \cup {name[s]}
                  /\ \E q \in Listings(user_db \ {name[s]}) :
                       user_list'[s] = CommaJoined(q)
          /\ (pc[s] \in {"sendnew", "subscribe"} /\ pc'[s] # "done")
               => user_list'[s] = user_list[s]
          /\ (pc[s] = "roster" /\ pc'[s] # "roster")
               => wr'[s] = Append(wr[s], RosterLine(user_list[s]))]_vars

\* A task is about to be sent a roster of three names while the other task
\* is in the event loop.
C12_Witness ==
  \E s, t \in Sess :
    /\ s # t /\ Active(t) /\ pc[s] = "roster"
    /\ Cardinality(user_db \ {name[s]}) = 3
    /\ \E q \in Listings(user_db \ {name[s]}) :
         Len(q) = 3 /\ user_list[s] = CommaJoined(q)

\* Name n is one of the names of the comma-joined list str.
Listed(n, str) ==
  \E i \in 1..Len(str) :
    /\ i + Len(n) - 1 <= Len(str)
    /\ SubSeq(str, i, i + Len(n) - 1) = n
    /\ i = 1 \/ (i > 2 /\ SubSeq(str, i - 2, i - 1) = <<44, 32>>)
    /\ \/ i + Len(n) - 1 = Len(str)
       \/ /\ i + Len(n) + 1 <= Len(str)
          /\ SubSeq(str, i + Len(n), i + Len(n) + 1) = <<44, 32>>

\* C13: a task that runs the admission block for a valid name that is not
\* registered, also one that another task has just taken out, is admitted
\* and the name is registered; and every roster another task computes
\* while a name is registered lists that name.
C13_ValidFreeNameJoins ==
  [][\A s \in Sess :
       /\ (pc[s] = "insert" /\ pc'[s] # "insert"
             /\ isValidName(name[s]) /\ name[s] \notin user_db)
            => /\ name_inserted'[s] = "Some(true)" /\ pc'[s] = "sendnew"
               /\ name[s] \in user_db'
       /\ (pc[s] = "insert" /\ pc'[s] # "insert")
            => \A n \in user_db' \ {name[s]} : Listed(n, user_list'[s])
       /\ (pc[s] = "take" /\ pc'[s] # "take") => name[s] \notin user_db']_vars

\* A task has just been admitted under the name another task held and gave
\* up, and its roster lists a user of the room.
C13_Witness ==
  \E s, t \in Sess :
    /\ s # t /\ pc[s] = "sendnew" /\ name[s] \in user_db
    /\ \E i \in 1..Len(bus) :
         bus[i].kind = "UserLeft" /\ bus[i].from = t /\ bus[i].user = name[s]
    /\ \E n \in PriorNames : Listed(n, user_list[s])

\* C14: a task's receiver yields the events sent after the task subscribed,
\* one after the other, and none sent before, its own NewUser among them:
\* every event the task renders was sent after it subscribed, and every
\* event sent since then and before its receiver's position is one it has
\* rendered or one of its own user.
C14_OnlyLaterEvents ==
  /\ [](\A s \in Sess :
          rx[s] # 0
            => /\ sub[s] < rx[s]
               /\ \A i \in JoinedAt(s) : i <= sub[s]
               /\ \A i \in Rendered(s) : sub[s] < i /\ i < rx[s]
               /\ \A j \in (sub[s] + 1)..(rx[s] - 1) :
                    j \in Rendered(s) \/ bus[j].user = name[s])
  /\ [][\A s \in Sess :
          (rx[s] # 0 /\ rx'[s] # rx[s])
            => \/ rx'[s] = 0
               \/ rx'[s] = rx[s] + 1 /\ ev'[s] \in {0, rx[s]}]_vars

\* A task subscribed after an event of another task that was sent after its
\* own NewUser, and has since rendered a later event.
C14_Witness ==
  \E s \in Sess :
    /\ rx[s] # 0 /\ Rendered(s) # {}
    /\ \E i \in JoinedAt(s) : \E j \in (i + 1)..sub[s] : bus[j].from # s

\* The task is at an await: reading from its socket, waiting in select!, or
\* in a write_all.
Suspended(s) ==
  pc[s] \in {"readname", "roster", "reject", "select", "write"}

\* C15: a task holds the lock only from its membership test to the end of
\* the admission block, and takes its name out in one step under the lock;
\* no task at an await holds it; and the holder can always finish the block,
\* so that a task that waits on its socket keeps no other from the lock.
C15_NoLockAcrossAwait ==
  /\ [](\A s \in Sess :
          /\ Suspended(s) => lock # s
          /\ lock = s => pc[s] = "insert" /\ ENABLED Insert(s))
  /\ [][\A s \in Sess :
          /\ (lock # s /\ lock' = s) => pc[s] = "lock" /\ pc'[s] = "insert"
          /\ (lock = s /\ pc'[s] # pc[s]) => lock' = 0
          /\ (pc[s] = "take" /\ pc'[s] # "take") => lock = 0 /\ lock' = 0]_vars

\* A task holds the lock while the other waits in select! and a name is
\* registered.
C15_Witness ==
  \E s, t \in Sess :
    /\ s # t /\ lock = s /\ pc[s] = "insert"
    /\ pc[t] = "select" /\ name[t] \in user_db

\* The longest the channel's history gets with pending input; its first
\* event is sent before any task has a receiver.
MaxBusPending == 2 * NSess + MaxMsgsPending

\* The event at position i is waiting in the receiver of task s.
EventPending(s, i) == Active(s) /\ rx[s] = i /\ i <= Len(bus)

Silent(s) == \A i \in 1..Len(bus) : bus[i].from # s

\* C17: a task whose reader ends or fails before it yields a name returns at
\* once: from the prompt to that return the task sends no event, has no
\* receiver and does not hold the lock, and the returning step leaves the
\* registry, the lock and the channel as they are.  Only a line that
\* decodes goes on to the admission block.
C17_EarlyExitTouchesNothing ==
  /\ [](\A s \in Sess :
          /\ pc[s] = "readname"
               => Silent(s) /\ rx[s] = 0 /\ lock # s /\ wr[s] = <<PromptLine>>
          /\ why[s] = "no_name"
               => pc[s] = "done" /\ Silent(s) /\ rx[s] = 0 /\ lock # s)
  /\ [][\A s \in Sess :
          /\ (pc[s] = "readname" /\ pc'[s] # "readname")
               => /\ user_db' = user_db /\ lock' = lock /\ bus' = bus
                  /\ rx'[s] = 0
                  /\ \/ pc'[s] = "done" /\ why'[s] = "no_name"
                     \/ /\ pc'[s] = "lock"
                        /\ \A k \in 1..Len(name'[s]) : name'[s][k] < 128
          /\ why[s] = "no_name" => why'[s] = "no_name" /\ pc'[s] = "done"]_vars

\* A task returned without a name while the other was in the event loop
\* with its name registered and its NewUser sent.
C17_Witness ==
  \E s, t \in Sess :
    /\ s # t /\ why[s] = "no_name" /\ pc[s] = "done"
    /\ Active(t) /\ name[t] \in user_db /\ JoinedAt(t) # {}

\* The roster line task s wrote names n.
InRoster(s, n) ==
  \E k \in 1..Len(wr[s]) :
    wr[s][k].fmt = "* The room contains: {}" /\ Listed(n, wr[s][k].text)

\* Task s wrote the "has entered the room" line for the NewUser of task t.
WroteEntered(s, t) ==
  \E k \in 1..Len(wr[s]) : \E i \in JoinedAt(t) :
    /\ wr[s][k].fmt = "* {u} has entered the room"
    /\ wr[s][k].idx = i /\ wr[s][k].user = bus[i].user

\* The task is in the event loop with nothing left to receive.
Drained(s) == pc[s] = "select" /\ rx[s] > Len(bus)

\* C18: of two tasks in the event loop, each has been told of the other once
\* it has received all that was sent: by its roster line or by the "has
\* entered the room" line.
C18_PresenceNeverMissed ==
  \A s, t \in Sess :
    (s # t /\ Drained(s) /\ Active(t))
      => (InRoster(s, name[t]) \/ WroteEntered(s, t))

\* No task has given up name n so far: whoever holds it is its only holder
\* to date.
NeverLeft(n) ==
  \A i \in 1..Len(bus) : ~(bus[i].kind = "UserLeft" /\ bus[i].user = n)

\* C19: no task whose roster line names another task's user also writes the
\* "has entered the room" line for that task's admission.
C19_PresenceNeverDuplicated ==
  \A s, t \in Sess :
    (s # t /\ Active(t) /\ NeverLeft(name[t]) /\ InRoster(s, name[t]))
      => ~WroteEntered(s, t)

\* The positions on the channel of the presence events of name n.
PresenceOf(n) ==
  {i \in 1..Len(bus) : bus[i].kind \in {"NewUser", "UserLeft"} /\ bus[i].user = n}

\* C20: on the channel the NewUser and UserLeft events of a name alternate,
\* NewUser first: between two NewUser events of a name lies a UserLeft of
\* it, and before every UserLeft a NewUser not yet answered.
C20_PresenceAlternates ==
  \A i \in 1..Len(bus) :
    bus[i].kind \in {"NewUser", "UserLeft"}
      => LET before == {j \in PresenceOf(bus[i].user) : j < i}
         IN IF before = {}
              THEN bus[i].kind = "NewUser"
              ELSE bus[CHOOSE j \in before : \A k \in before : k <= j].kind # bus[i].kind

====
